---- MODULE Spec2Model ----
(***************************************************************************)
(* Corridor Horror (src/zapysk/main.py): the frame driver                  *)
(* CorridorHorrorApp.update, the player controller (key handlers, mouse    *)
(* look, locomotion, jump), the door, the lighting and the UI timers.      *)
(*                                                                         *)
(* Units.  Angles are counted in 1/20 degree: the pointer delta is         *)
(* pointer - size/2, a multiple of half a pixel, and the sensitivity is    *)
(* 0.1 degree per pixel, so one half pixel turns the camera by 1/20        *)
(* degree.  Pointer deltas are therefore carried in half pixels (dx2, dy2).*)
(* Times are in milliseconds.  A vector [x, y, z, d] stands for            *)
(* (x, y, z) / sqrt(d), which keeps normalize() exact.                     *)
(***************************************************************************)
EXTENDS Integers, Sequences, FiniteSets, TLC

\* ------------------------------------------------------------------ constants
WALK_SPEED == 4
RUN_SPEED == 7
DOOR_UNLOCKED == FALSE
\* max(-75.0, min(75.0, ...)) in apply_mouse_look, in degrees
PITCH_LIMIT == 75
\* sensitivity = 0.1 = 1 / SENSITIVITY_DIV degree per pixel
SENSITIVITY_DIV == 10
\* UI.show_locked: lock_timer = 1.2 (s), in ms
LOCK_TIME == 1200
\* random.uniform(0.3, 1.2) (s) in LightingController.update: the two ends, in ms
FlickerChoices == {300, 1200}

\* -------------------------------------------------------------------- bounds
\* the window's size in pixels (win.get_properties()); the pointer's reach from
\* the centre in one move, in pixels
WinXSize == 1600
WinYSize == 1200
PointerReach == 400
\* frame callbacks in one run
MaxFrames == 3
\* physics steps a jump stays airborne at most
MaxAir == 2
\* globalClock.get_dt(): an ordinary frame and a stalled one, in ms
DtFrame == 20
DtStall == 2000

DtValues == {DtFrame, DtStall}
AngleUnit == 2 * SENSITIVITY_DIV
PitchClamp == PITCH_LIMIT * AngleUnit

VARIABLES
    input_state,   \* PlayerController.input_state : InputState
    player,        \* PlayerController: heading, pitch, breath_timer
    controller,    \* BulletCharacterControllerNode: commanded movement, ground contact
    nearDoor,      \* (door_pos - player_pos).length() < 2.3
    door,          \* Door: is_open, is_unlocked, anim
    lighting,      \* LightingController: flicker_timer
    ui,            \* UI: prompt, locked_label, lock_timer
    paused,        \* CorridorHorrorApp.paused
    pointer,       \* win.get_pointer(0): <<x, y>> in pixels
    hasPointer,    \* win.has_pointer(0)
    frameCount,    \* frames run that were not paused
    calls,         \* the calls made by the handler that ran last, in order
    jumps,         \* do_jump calls since the last press of space
    framePtr       \* the pointer as the previous frame callback left it

vars == <<input_state, player, controller, nearDoor, door, lighting, ui, paused,
          pointer, hasPointer, frameCount, calls, jumps, framePtr>>

\* ------------------------------------------------------------------- helpers
Max(a, b) == IF a >= b THEN a ELSE b
Min(a, b) == IF a <= b THEN a ELSE b

Vec3(x, y, z) == [x |-> x, y |-> y, z |-> z, d |-> 1]
\* (x^2 + y^2 + z^2) of the numerators; the squared length is this over d
SumSq(v) == v.x * v.x + v.y * v.y + v.z * v.z
\* Vec3.length() > 0
NonZero(v) == SumSq(v) > 0
\* Vec3.normalize(): (x, y, z)/sqrt(d) divided by its length sqrt(SumSq/d)
normalize(v) == [v EXCEPT !.d = SumSq(v)]
\* Vec3 * float
Scale(v, k) == [x |-> v.x * k, y |-> v.y * k, z |-> v.z * k, d |-> v.d]

\* the state as one record, so that a method is a function from state to state
State ==
    [input_state |-> input_state, player |-> player, controller |-> controller,
     nearDoor |-> nearDoor, door |-> door, lighting |-> lighting, ui |-> ui,
     paused |-> paused, pointer |-> pointer, hasPointer |-> hasPointer,
     frameCount |-> frameCount, calls |-> calls, jumps |-> jumps,
     framePtr |-> framePtr]

Store(s) ==
    /\ input_state' = s.input_state
    /\ player' = s.player
    /\ controller' = s.controller
    /\ nearDoor' = s.nearDoor
    /\ door' = s.door
    /\ lighting' = s.lighting
    /\ ui' = s.ui
    /\ paused' = s.paused
    /\ pointer' = s.pointer
    /\ hasPointer' = s.hasPointer
    /\ frameCount' = s.frameCount
    /\ calls' = s.calls
    /\ jumps' = s.jumps
    /\ framePtr' = s.framePtr

\* a handler starts with an empty log; Log records one call and its arguments
Begin(s) == [s EXCEPT !.calls = <<>>]
Log(s, f, a) == [s EXCEPT !.calls = Append(@, [f |-> f, a |-> a])]
Called(f) == \E i \in 1..Len(calls) : calls[i].f = f
\* the calls of the log that are among fs, in order
RECURSIVE Filter(_, _)
Filter(q, fs) ==
    IF q = <<>> THEN <<>>
    ELSE IF Head(q).f \in fs THEN <<Head(q).f>> \o Filter(Tail(q), fs)
    ELSE Filter(Tail(q), fs)

\* -------------------------------------------------------------- window, input
\* base_mouse_x = get_x_size() / 2, in half pixels
BaseMouseX2 == WinXSize
BaseMouseY2 == WinYSize
\* int(self.base_mouse_x), int(self.base_mouse_y)
CentreX == WinXSize \div 2
CentreY == WinYSize \div 2
\* where the user may leave the pointer: at the centre, PointerReach away along
\* one axis, or along both
PointerOffsets ==
    {<<0, 0>>, <<-1, 0>>, <<1, 0>>, <<0, -1>>, <<0, 1>>, <<1, 1>>}
PointerTargets ==
    {<<CentreX + o[1] * PointerReach, CentreY + o[2] * PointerReach>> :
        o \in PointerOffsets}

InputNames == {"forward", "backward", "left", "right", "run", "interact", "jump"}
MoveKeys == {"forward", "backward", "left", "right", "run"}

\* PlayerController.set_input
set_input(s, name, value) ==
    Log([s EXCEPT !.input_state[name] = value], "set_input", <<>>)

\* --------------------------------------------------------- PlayerController
\* BulletCharacterControllerNode.set_linear_movement(velocity, True)
set_linear_movement(s, velocity) ==
    Log([s EXCEPT !.controller.movement = velocity], "set_linear_movement", <<>>)

\* BulletCharacterControllerNode.is_on_ground()
is_on_ground(s) == s.controller.air = 0

\* BulletCharacterControllerNode.do_jump(): the impulse sends the body up
do_jump(s) ==
    Log([s EXCEPT !.controller.air = MaxAir, !.jumps = @ + 1], "do_jump", <<>>)

\* PlayerController.apply_breathing (sway and bob are functions of breath_timer)
apply_breathing(s, dt) ==
    Log([s EXCEPT !.player.breath_timer = @ + dt], "apply_breathing", <<dt>>)

\* JumpStep without the is_on_ground() test
JumpStepNoGroundCheck(s) ==
    IF s.input_state.jump THEN do_jump(s) ELSE s

\* the `if self.input_state.jump:` block of PlayerController.update
JumpStep(s) ==
    IF s.input_state.jump
    THEN IF is_on_ground(s) THEN do_jump(s) ELSE s
    ELSE s

\* move_dir of PlayerController.update before normalisation
MoveDir(i) ==
    LET m0 == Vec3(0, 0, 0)
        m1 == IF i.forward THEN [m0 EXCEPT !.y = @ + 1] ELSE m0
        m2 == IF i.backward THEN [m1 EXCEPT !.y = @ - 1] ELSE m1
        m3 == IF i.left THEN [m2 EXCEPT !.x = @ - 1] ELSE m2
        m4 == IF i.right THEN [m3 EXCEPT !.x = @ + 1] ELSE m3
    IN  m4

\* Velocity without move_dir.normalize()
VelocityNotNormalized(i) ==
    Scale(MoveDir(i), IF i.run THEN RUN_SPEED ELSE WALK_SPEED)

\* velocity of PlayerController.update
Velocity(i) ==
    LET move_dir == IF NonZero(MoveDir(i)) THEN normalize(MoveDir(i)) ELSE MoveDir(i)
        speed == IF i.run THEN RUN_SPEED ELSE WALK_SPEED
    IN  Scale(move_dir, speed)

\* player_update that also integrates gravity itself: an airborne body is
\* brought one step nearer to the ground before the physics step runs
PlayerUpdateIntegrates(s, dt) ==
    LET s0 == Log(s, "player.update", <<dt>>)
        s1 == set_linear_movement(s0, Velocity(s0.input_state))
        s2 == JumpStep(s1)
        s3 == IF s1.controller.air > 0 THEN [s2 EXCEPT !.controller.air = @ - 1] ELSE s2
    IN  apply_breathing(s3, dt)

\* PlayerController.update
player_update(s, dt) ==
    LET s0 == Log(s, "player.update", <<dt>>)
        s1 == set_linear_movement(s0, Velocity(s0.input_state))
        s2 == JumpStep(s1)
    IN  apply_breathing(s2, dt)

\* apply_mouse_look with the lower clamp forgotten
ApplyMouseLookClampHigh(s, dx2, dy2) ==
    Log([s EXCEPT !.player.heading = @ - dx2,
                  !.player.pitch = Min(PitchClamp, @ - dy2)],
        "apply_mouse_look", <<dx2, dy2>>)

\* PlayerController.apply_mouse_look, dx2 and dy2 in half pixels
apply_mouse_look(s, dx2, dy2) ==
    Log([s EXCEPT !.player.heading = @ - dx2,
                  !.player.pitch = Max(-PitchClamp, Min(PitchClamp, @ - dy2))],
        "apply_mouse_look", <<dx2, dy2>>)

\* ---------------------------------------------------------------------- Door
\* Door.open_door
open_door(s) ==
    Log([s EXCEPT !.door.is_open = TRUE, !.door.anim = TRUE], "open_door", <<>>)

\* try_interact without the `if not self.is_unlocked` block
TryInteractNoLock(s) ==
    LET s0 == Log(s, "try_interact", <<>>)
    IN  IF s0.door.is_open
        THEN [s |-> s0, r |-> ""]
        ELSE [s |-> open_door(s0), r |-> ""]

\* Door.try_interact: the state after it and the string it returns
try_interact(s) ==
    LET s0 == Log(s, "try_interact", <<>>)
    IN  IF ~s0.door.is_unlocked
        THEN [s |-> Log(s0, "lock_sound.play", <<>>), r |-> "Locked"]
        ELSE IF s0.door.is_open
        THEN [s |-> s0, r |-> ""]
        ELSE [s |-> open_door(s0), r |-> ""]

\* Door.update (update_collision_transform copies the hinge's transform)
door_update(s) == Log(s, "door.update", <<>>)

\* ---------------------------------------------------------- Lighting and UI
\* LightingController.update; flicker is the value random.uniform returns
lighting_update(s, dt, flicker) ==
    LET t == s.lighting.flicker_timer - dt
    IN  Log([s EXCEPT !.lighting.flicker_timer = IF t <= 0 THEN flicker ELSE t],
            "lighting.update", <<dt>>)

\* UI.show_prompt
show_prompt(s, text) == [s EXCEPT !.ui.prompt = text]

\* UI.show_locked
show_locked(s) == [s EXCEPT !.ui.locked_label = "Locked", !.ui.lock_timer = LOCK_TIME]

\* UI.update
ui_update(s, dt) ==
    LET s0 == Log(s, "ui.update", <<dt>>)
        t == s0.ui.lock_timer - dt
    IN  IF s0.ui.lock_timer > 0
        THEN IF t <= 0
             THEN [s0 EXCEPT !.ui.lock_timer = t, !.ui.locked_label = ""]
             ELSE [s0 EXCEPT !.ui.lock_timer = t]
        ELSE s0

\* ------------------------------------------------------------------ physics
\* BulletWorld.do_physics(dt, 4, 1/120): an airborne body comes nearer to landing
\* or not (e.progress); a body that moves may enter or leave the door's range
\* (e.near)
do_physics(s, dt, e) ==
    LET moving == NonZero(s.controller.movement) \/ s.controller.air > 0
        air == IF s.controller.air > 0 /\ e.progress
               THEN s.controller.air - 1 ELSE s.controller.air
    IN  Log([s EXCEPT !.controller.air = air,
                      !.nearDoor = IF moving THEN e.near ELSE @],
            "do_physics", <<dt>>)

Outcomes == [progress : BOOLEAN, near : BOOLEAN, flicker : FlickerChoices]

\* -------------------------------------------------------- CorridorHorrorApp
\* CorridorHorrorApp.toggle_pause
toggle_pause(s) ==
    LET s0 == Log([s EXCEPT !.paused = ~@], "toggle_pause", <<>>)
    IN  IF s0.paused THEN show_prompt(s0, "Paused - Esc to resume")
        ELSE show_prompt(s0, "")

\* win.move_pointer(0, int(base_mouse_x), int(base_mouse_y))
move_pointer(s, x, y) == Log([s EXCEPT !.pointer = <<x, y>>], "move_pointer", <<x, y>>)

\* handle_mouse_look without the `dx != 0 or dy != 0` test
HandleMouseLookAlways(s) ==
    LET s0 == Log(s, "handle_mouse_look", <<>>)
        dx2 == 2 * s0.pointer[1] - BaseMouseX2
        dy2 == 2 * s0.pointer[2] - BaseMouseY2
    IN  IF ~s0.hasPointer THEN s0
        ELSE move_pointer(apply_mouse_look(s0, dx2, dy2), CentreX, CentreY)

\* CorridorHorrorApp.handle_mouse_look
handle_mouse_look(s) ==
    LET s0 == Log(s, "handle_mouse_look", <<>>)
        dx2 == 2 * s0.pointer[1] - BaseMouseX2
        dy2 == 2 * s0.pointer[2] - BaseMouseY2
    IN  IF ~s0.hasPointer THEN s0
        ELSE IF dx2 # 0 \/ dy2 # 0
        THEN move_pointer(apply_mouse_look(s0, dx2, dy2), CentreX, CentreY)
        ELSE s0

\* CorridorHorrorApp.check_door_interaction
check_door_interaction(s) ==
    LET s0 == Log(s, "check_door_interaction", <<>>)
    IN  IF s0.nearDoor
        THEN LET s1 == show_prompt(s0, "E - interact")
             IN  IF s1.input_state.interact
                 THEN LET t == try_interact(s1)
                      IN  IF t.r = "Locked" THEN show_locked(t.s) ELSE t.s
                 ELSE s1
        ELSE show_prompt(s0, "")

\* FrameBody with the locomotion step ahead of the mouse look
FrameBodyMoveFirst(s, dt, e) ==
    LET s1 == player_update(s, dt)
        s2 == handle_mouse_look(s1)
        s3 == do_physics(s2, dt, e)
        s4 == door_update(s3)
        s5 == lighting_update(s4, dt, e.flicker)
        s6 == ui_update(s5, dt)
    IN  check_door_interaction(s6)

\* the body of CorridorHorrorApp.update after the pause check
FrameBody(s, dt, e) ==
    LET s1 == handle_mouse_look(s)
        s2 == player_update(s1, dt)
        s3 == do_physics(s2, dt, e)
        s4 == door_update(s3)
        s5 == lighting_update(s4, dt, e.flicker)
        s6 == ui_update(s5, dt)
    IN  check_door_interaction(s6)

\* update with the mouse look ahead of the pause check
UpdateLookBeforePause(s, dt, e) ==
    LET s0 == handle_mouse_look(Log(s, "update", <<>>))
    IN  IF s0.paused THEN s0
        ELSE LET s2 == player_update(s0, dt)
                 s3 == do_physics(s2, dt, e)
                 s4 == door_update(s3)
                 s5 == lighting_update(s4, dt, e.flicker)
                 s6 == ui_update(s5, dt)
             IN  check_door_interaction(s6)

\* CorridorHorrorApp.update: dt is globalClock.get_dt()
update(s, dt, e) ==
    LET s0 == Log(s, "update", <<>>)
    IN  IF s0.paused THEN s0 ELSE FrameBody(s0, dt, e)

\* ------------------------------------------------------------------- actions
Init ==
    /\ input_state = [n \in InputNames |-> FALSE]
    /\ player = [heading |-> 0, pitch |-> 0, breath_timer |-> 0]
    /\ controller = [movement |-> Vec3(0, 0, 0), air |-> 0]
    /\ nearDoor = FALSE
    /\ door = [is_open |-> FALSE, is_unlocked |-> DOOR_UNLOCKED, anim |-> FALSE]
    /\ lighting = [flicker_timer |-> 0]
    /\ ui = [prompt |-> "", locked_label |-> "", lock_timer |-> 0]
    /\ paused = FALSE
    /\ pointer = <<CentreX, CentreY>>
    /\ hasPointer = TRUE
    /\ frameCount = 0
    /\ calls = <<>>
    /\ jumps = 0
    /\ framePtr = pointer

\* a key goes down or up: base.accept(<key>, self.set_input, [name, value])
KeyEvent(names) ==
    \E name \in names, value \in BOOLEAN :
        /\ input_state[name] # value
        /\ LET s == set_input(Begin(State), name, value)
           IN  Store(IF name = "jump" /\ value THEN [s EXCEPT !.jumps = 0] ELSE s)

MoveKey == KeyEvent(MoveKeys)
JumpKey == KeyEvent({"jump"})
InteractKey == KeyEvent({"interact"})

\* the user moves the mouse inside the window
PointerMove ==
    /\ hasPointer
    /\ \E p \in PointerTargets \ {pointer} : Store([Begin(State) EXCEPT !.pointer = p])

\* the mouse leaves or enters the window
PointerPresence == Store([Begin(State) EXCEPT !.hasPointer = ~@])

\* base.accept("escape", self.toggle_pause)
Escape == Store(toggle_pause(Begin(State)))

\* task_mgr runs the "update" task once per frame; dts are the values the clock
\* may report.  frameCount counts the frames that were not paused.
FrameWith(dts) ==
    /\ frameCount < MaxFrames
    /\ \E dt \in dts, e \in Outcomes :
        LET s == update(Begin(State), dt, e)
        IN  Store([s EXCEPT !.frameCount = IF s.paused THEN @ ELSE @ + 1,
                            !.framePtr = s.pointer])

\* a frame after any delay, and a frame at the ordinary rate
Frame == FrameWith(DtValues)
Tick == FrameWith({DtFrame})

Next == MoveKey \/ JumpKey \/ InteractKey \/ PointerMove \/ PointerPresence \/ Escape \/ Frame
Spec == Init /\ [][Next]_vars

\* the mouse, the pause key and the frames
NextLook == PointerMove \/ PointerPresence \/ Escape \/ Tick
SpecLook == Init /\ [][NextLook]_vars

\* the jump and interact keys, walking forward, the pause key and the frames
NextJump == JumpKey \/ InteractKey \/ KeyEvent({"forward"}) \/ Escape \/ Tick
SpecJump == Init /\ [][NextJump]_vars

\* the movement keys and the frames
NextWalk == MoveKey \/ Tick
SpecWalk == Init /\ [][NextWalk]_vars

\* the jump key, the pause key and frames after any delay
NextClock == JumpKey \/ Escape \/ Frame
SpecClock == Init /\ [][NextClock]_vars

\* -------------------------------------------------------------------- claims
\* the step is a frame callback: its log starts with update
IsFrame == Len(calls') > 0 /\ calls'[1].f = "update"
\* the step is a frame callback that ran the frame's body
IsStep == IsFrame /\ ~paused
\* the state is the one a frame that was not paused has just left
AfterStep == Called("player.update")
\* mouse deltas in half pixels: none, one half pixel, a move's reach, and far
\* beyond the clamp, either way
LookDeltas ==
    {k * m : k \in {-1, 0, 1}, m \in {1, 2 * PointerReach, 4 * PitchClamp}}
PitchAfter(dx2, dy2) == apply_mouse_look(State, dx2, dy2).player.pitch

\* C1: the pitch is within [-75, +75] degrees in every reachable state and after
\* any further apply_mouse_look(dx, dy); at a bound, a call whose dy pushes
\* further the same way leaves the pitch exactly at the bound.
C1_PitchClamped ==
    /\ -PitchClamp <= player.pitch /\ player.pitch <= PitchClamp
    /\ \A dx2 \in LookDeltas, dy2 \in LookDeltas :
        /\ -PitchClamp <= PitchAfter(dx2, dy2)
        /\ PitchAfter(dx2, dy2) <= PitchClamp
        /\ (player.pitch = PitchClamp /\ dy2 < 0) => PitchAfter(dx2, dy2) = PitchClamp
        /\ (player.pitch = -PitchClamp /\ dy2 > 0) => PitchAfter(dx2, dy2) = -PitchClamp

\* a frame's mouse look with dy > 0 has driven the pitch to the lower bound
C1_Witness ==
    /\ player.pitch = -PitchClamp
    /\ \E i \in 1..Len(calls) : calls[i].f = "apply_mouse_look" /\ calls[i].a[2] > 0

\* C2: one press of the jump key produces at most one do_jump, however many
\* frames the key stays held and even if the character lands while it is held.
C2_JumpSingleTrigger == jumps <= 1

\* C3: at the end of every PlayerController.update call input_state.jump is
\* false.
C3_JumpConsumed == AfterStep => ~input_state.jump

\* C4: a frame callback that runs while paused makes no call besides update
\* itself (no mouse look, no locomotion step, no jump, no physics step, no
\* door check) and changes none of the player's heading, pitch and
\* breath_timer, the controller's commanded velocity and ground contact, the
\* door, the flicker timer, the UI, the inputs and the pointer.
C4_PausedFreezes ==
    [][(IsFrame /\ paused) =>
        /\ calls' = <<[f |-> "update", a |-> <<>>]>>
        /\ UNCHANGED <<input_state, player, controller, nearDoor, door, lighting,
                       ui, paused, pointer, hasPointer, jumps>>]_vars

\* a frame ran while paused with the jump key held
C4_Witness ==
    /\ paused /\ input_state.jump /\ Called("update")
    /\ ~Called("do_jump") /\ controller.air = 0

\* C5: the first frame after a resume turns the camera by the pointer's
\* motion since the previous frame callback only, not by what the pointer
\* moved during the paused frames.
C5_NoJumpOnResume ==
    [][(IsStep /\ hasPointer /\ Called("toggle_pause")) =>
        /\ player'.heading = player.heading - 2 * (pointer[1] - framePtr[1])
        /\ player'.pitch =
             Max(-PitchClamp,
                 Min(PitchClamp, player.pitch - 2 * (pointer[2] - framePtr[2])))]_vars

\* C6: a frame that is not paused runs the mouse look, then the locomotion
\* step, then the physics step, then the door and prompt check, each once.
FrameSteps ==
    {"handle_mouse_look", "apply_mouse_look", "player.update", "do_physics",
     "check_door_interaction"}
C6_FrameOrder ==
    (Called("update") /\ ~paused) =>
        Filter(calls, FrameSteps) \in
            {<<"handle_mouse_look", "player.update", "do_physics",
               "check_door_interaction">>,
             <<"handle_mouse_look", "apply_mouse_look", "player.update",
               "do_physics", "check_door_interaction">>}

\* a frame that turned the camera and then ran the other steps
C6_Witness == AfterStep /\ Called("apply_mouse_look") /\ Called("check_door_interaction")

\* C7: in every PlayerController.update step do_jump is called exactly when
\* the jump request is set and the controller is on the ground at that step.
C7_JumpOnlyFromGround ==
    [][IsStep =>
        ((\E i \in 1..Len(calls') : calls'[i].f = "do_jump")
            <=> (input_state.jump /\ controller.air = 0))]_vars

\* a step with the jump key held while airborne: no second impulse
C7_Witness ==
    AfterStep /\ input_state.jump /\ ~Called("do_jump") /\ jumps = 1

\* the largest delta-time a step may be given, in ms (50 ms)
MAX_DT == 50
\* C8: the dt handed to the locomotion step and to the physics step never
\* exceeds the fixed maximum.
C8_DtClamped ==
    \A i \in 1..Len(calls) :
        calls[i].f \in {"player.update", "do_physics"} => calls[i].a[1] <= MAX_DT

\* no key of the axis is down, or opposing keys cancel
AxisZero(i) == (i.forward <=> i.backward) /\ (i.left <=> i.right)
\* the squared length of v is n
LengthSqIs(v, n) == SumSq(v) = n * v.d
\* C9: the velocity handed to the controller has vertical component 0 and
\* magnitude 0 when the intent axis is zero, else RUN_SPEED if run is set and
\* WALK_SPEED if not, diagonal or axial.
C9_VelocityMagnitude ==
    AfterStep =>
        /\ controller.movement.z = 0
        /\ IF AxisZero(input_state)
           THEN SumSq(controller.movement) = 0
           ELSE IF input_state.run
           THEN LengthSqIs(controller.movement, RUN_SPEED * RUN_SPEED)
           ELSE LengthSqIs(controller.movement, WALK_SPEED * WALK_SPEED)

\* a step that ran forward and to the right at once
C9_Witness ==
    /\ AfterStep /\ input_state.forward /\ input_state.right /\ input_state.run
    /\ ~input_state.backward /\ ~input_state.left

\* C10: a frame whose pointer delta is dx = 0 and dy = 0 calls neither
\* apply_mouse_look nor move_pointer and leaves heading, pitch and pointer as
\* they were.
C10_ZeroDeltaNoOp ==
    [][(IsFrame /\ 2 * pointer[1] = BaseMouseX2 /\ 2 * pointer[2] = BaseMouseY2) =>
        /\ \A i \in 1..Len(calls') :
            calls'[i].f \notin {"apply_mouse_look", "move_pointer"}
        /\ player'.heading = player.heading
        /\ player'.pitch = player.pitch
        /\ pointer' = pointer]_vars

\* a frame sampled the pointer at the centre and did nothing about it
C10_Witness ==
    /\ AfterStep /\ hasPointer /\ Called("handle_mouse_look")
    /\ ~Called("apply_mouse_look")
    /\ 2 * pointer[1] = BaseMouseX2 /\ 2 * pointer[2] = BaseMouseY2

\* the calls of a log, as a set of names
Names(q) == {q[i].f : i \in 1..Len(q)}
\* PlayerController.update run alone on the current state
StepAlone(dt) == player_update(Begin(State), dt)

\* C11: PlayerController.update reaches the character body through
\* set_linear_movement and do_jump only: run on any reachable state it makes
\* no other call than these and apply_breathing, leaves the body's place
\* (nearDoor) as it is and changes its vertical state (air) by a do_jump call
\* only; and in every step of the program the body's place changes only in a
\* handler that calls do_physics, its vertical state only in one that calls
\* do_physics or do_jump.
C11_NoManualIntegration ==
    [][/\ \A dt \in DtValues :
            /\ Names(StepAlone(dt).calls) \subseteq
                 {"player.update", "set_linear_movement", "do_jump", "apply_breathing"}
            /\ StepAlone(dt).nearDoor = nearDoor
            /\ StepAlone(dt).controller.air # controller.air =>
                 "do_jump" \in Names(StepAlone(dt).calls)
       /\ nearDoor' # nearDoor => "do_physics" \in Names(calls')
       /\ controller'.air # controller.air =>
            ("do_physics" \in Names(calls') \/ "do_jump" \in Names(calls'))
       /\ controller'.air < controller.air => "do_physics" \in Names(calls')]_vars

\* a step that walked and jumped, and whose physics step moved the body into
\* the door's range
C11_Witness ==
    /\ AfterStep /\ Called("do_jump") /\ NonZero(controller.movement)
    /\ nearDoor /\ controller.air < MaxAir

\* C12: while the door is locked it is not open and no opening animation has
\* started; try_interact on the locked door returns "Locked" and leaves the
\* door as it is, without a call of open_door; and a frame that called
\* try_interact has shown the "Locked" label (the result was "Locked").
C12_LockedDoorStaysShut ==
    ~door.is_unlocked =>
        /\ ~door.is_open /\ ~door.anim
        /\ try_interact(State).r = "Locked"
        /\ try_interact(State).s.door = door
        /\ "open_door" \notin Names(try_interact(State).s.calls)
        /\ Called("try_interact") =>
            /\ ~Called("open_door")
            /\ ui.locked_label = "Locked" /\ ui.lock_timer = LOCK_TIME

\* a frame near the door with the interact key held: the door stayed shut
C12_Witness ==
    /\ Called("try_interact") /\ nearDoor /\ input_state.interact
    /\ ~door.is_unlocked /\ ~door.is_open

====
